---- MODULE Spec2Model ----
(***************************************************************************)
(* A model of download_shimo_docs_normal.py: DocumentSystemDownloader.      *)
(*                                                                         *)
(* Text (names, paths) is a sequence of one-character strings, so that     *)
(* escaping, joining and appending an extension are computed as the code   *)
(* computes them.  The remote service and the local disk are the           *)
(* environment: every response of the service is a choice among the        *)
(* shapes _make_request can hand back (None, JSON of any shape, bytes).     *)
(***************************************************************************)
EXTENDS Integers, Sequences, FiniteSets, TLC

(***************************************************************************)
(* Bounds of the model                                                     *)
(***************************************************************************)
\* entries the remote tree holds in all (over every listed folder)
MaxNodes == 3
\* entries one listing holds
MaxEntries == 3
\* length of the names the escaping is checked on
MaxNameLen == 3

(***************************************************************************)
(* Program constants                                                       *)
(***************************************************************************)
\* export_office_file: max_retries = 30
max_retries == 30
\* config["local_root_dir"]
local_root_dir == <<"r">>

(***************************************************************************)
(* _safe_filename                                                          *)
(***************************************************************************)
\* invalid_chars = '<>:"/\\|?*'
invalid_chars == {"<", ">", ":", "\"", "/", "\\", "|", "?", "*"}

\* the %XX form of a character (RFC 3986 percent-encoding of its byte)
PercentEncoded(c) ==
    CASE c = "<"  -> <<"%", "3", "C">>
      [] c = ">"  -> <<"%", "3", "E">>
      [] c = ":"  -> <<"%", "3", "A">>
      [] c = "\"" -> <<"%", "2", "2">>
      [] c = "/"  -> <<"%", "2", "F">>
      [] c = "\\" -> <<"%", "5", "C">>
      [] c = "|"  -> <<"%", "7", "C">>
      [] c = "?"  -> <<"%", "3", "F">>
      [] c = "*"  -> <<"%", "2", "A">>
      [] c = "%"  -> <<"%", "2", "5">>
      [] OTHER    -> <<c>>

\* urllib.parse.quote(char): called with the default safe='/', so the
\* slash, like the unreserved characters, is handed back as it is
\* (quote never escapes letters, digits and "_.-~": those this model uses)
QuoteAlwaysSafe == {"a", "b", "d", "r", "c", "l", "o", "p", "s", "t", "x", "A", "C", "E", "F", "2", "3", "5", "7", "."}

quote(c) == IF c \in QuoteAlwaysSafe \cup {"/"} THEN <<c>> ELSE PercentEncoded(c)

RECURSIVE _safe_filename(_)
_safe_filename(filename) ==
    IF filename = <<>> THEN <<>>
    ELSE (IF Head(filename) \in invalid_chars
             THEN quote(Head(filename))
             ELSE <<Head(filename)>>) \o _safe_filename(Tail(filename))

(***************************************************************************)
(* Paths: os.path.join and the place on disk a path string names           *)
(***************************************************************************)
\* os.path.join(a, b) on POSIX
join(a, b) ==
    IF b # <<>> /\ Head(b) = "/" THEN b
    ELSE IF a = <<>> \/ a[Len(a)] = "/" THEN a \o b
    ELSE a \o <<"/">> \o b

RECURSIVE SegAcc(_, _, _)
SegAcc(p, cur, acc) ==
    IF p = <<>> THEN Append(acc, cur)
    ELSE IF Head(p) = "/" THEN SegAcc(Tail(p), <<>>, Append(acc, cur))
    ELSE SegAcc(Tail(p), Append(cur, Head(p)), acc)

\* the components of a path string, split at "/"
Segments(p) == SegAcc(p, <<>>, <<>>)

RECURSIVE NormAcc(_, _, _, _)
NormAcc(segs, abs, up, out) ==
    IF segs = <<>> THEN [abs |-> abs, up |-> up, segs |-> out]
    ELSE LET s == Head(segs) IN
         IF s = <<>> \/ s = <<".">> THEN NormAcc(Tail(segs), abs, up, out)
         ELSE IF s = <<".", ".">>
              THEN IF out # <<>> THEN NormAcc(Tail(segs), abs, up, SubSeq(out, 1, Len(out) - 1))
                   ELSE IF abs THEN NormAcc(Tail(segs), abs, up, out)
                   ELSE NormAcc(Tail(segs), abs, up + 1, out)
              ELSE NormAcc(Tail(segs), abs, up, Append(out, s))

\* the place the operating system resolves a path string to, from the
\* working directory: absolute or not, levels above the working directory,
\* and the components below
Resolve(p) == NormAcc(Segments(p), p # <<>> /\ Head(p) = "/", 0, <<>>)

RootLoc == Resolve(local_root_dir)

\* the place lies in the local root directory (the root itself included)
InsideRoot(loc) ==
    /\ ~loc.abs
    /\ loc.up = 0
    /\ Len(loc.segs) >= Len(RootLoc.segs)
    /\ SubSeq(loc.segs, 1, Len(RootLoc.segs)) = RootLoc.segs

ParentLoc(loc) == [loc EXCEPT !.segs = SubSeq(loc.segs, 1, Len(loc.segs) - 1)]

\* the place and every directory above it, up to the working directory
Ancestors(loc) == {[loc EXCEPT !.segs = SubSeq(loc.segs, 1, k)] : k \in 1..Len(loc.segs)}

(***************************************************************************)
(* Values the remote service hands back                                    *)
(***************************************************************************)
\* A JSON object is a function from its keys to values; a key it lacks is
\* not in its domain.  Scalars are written as their literals: "0", "100",
\* "None" (null), "" (the empty string).
Get(d, k, default) == IF k \in DOMAIN d THEN d[k] ELSE default

\* the object with no key: {}
EmptyObject == [k \in {} |-> "None"]

\* what _make_request returns: None (the request or the decoding failed),
\* or the decoded JSON, which is an object or something else
NoResponse == [kind |-> "absent"]
NotAnObject == [kind |-> "nondict"]
Object(body) == [kind |-> "dict", body |-> body]

\* Python truth of a response: None and the empty object are false
Truthy(r) == r.kind # "absent" /\ (r.kind = "dict" => DOMAIN r.body # {})

\* bytes handed back by a binary request, or None
Absent == [ok |-> FALSE, bytes |-> <<>>]
Got(b) == [ok |-> TRUE, bytes |-> b]
Bytes == {<<>>, <<"x">>, <<"y">>}
Contents == {Absent} \cup {Got(b) : b \in Bytes}

\* Python truth of file_content: None and b"" are false
HasContent(c) == c.ok /\ c.bytes # <<>>

\* type_mapping / ext_mapping of export_office_file and download_file
OfficeTypes == {"presentation", "newdoc", "modoc", "mosheet"}

type_mapping(t) ==
    CASE t = "presentation" -> "pptx"
      [] t = "newdoc"       -> "docx"
      [] t = "modoc"        -> "docx"
      [] t = "mosheet"      -> "xlsx"
      [] OTHER              -> "None"

\* (mutant) a spreadsheet gets the extension of the older format
ext_mapping_xls(t) ==
    CASE t = "presentation" -> <<".", "p", "p", "t", "x">>
      [] t = "newdoc"       -> <<".", "d", "o", "c", "x">>
      [] t = "modoc"        -> <<".", "d", "o", "c", "x">>
      [] t = "mosheet"      -> <<".", "x", "l", "s">>
      [] OTHER              -> <<>>

ext_mapping(t) ==
    CASE t = "presentation" -> <<".", "p", "p", "t", "x">>
      [] t = "newdoc"       -> <<".", "d", "o", "c", "x">>
      [] t = "modoc"        -> <<".", "d", "o", "c", "x">>
      [] t = "mosheet"      -> <<".", "x", "l", "s", "x">>
      [] OTHER              -> <<>>

\* the entry descriptors a listing may hold: {guid, name, isFolder, type},
\* any key of which a malformed descriptor lacks.  The guid of an entry is
\* its place in the tree (the guid of its folder and its index there), so
\* the descriptor only says whether it has one.
Entry(isFolder, name, type) ==
    [keys |-> {"guid", "name", "type"}, isFolder |-> isFolder, name |-> name, type |-> type]

NoGuid(e) == [e EXCEPT !.keys = {"name", "type"}]

\* The populations of the remote store the runs are checked on: every
\* entry of a tree is drawn from one of them.
\*   plain names: a folder and a regular file
PlainStore == {Entry(TRUE, <<"d">>, "folder"), Entry(FALSE, <<"a">>, "pdf")}
\*   a folder and an exported document
DocStore == {Entry(TRUE, <<"d">>, "folder"), Entry(FALSE, <<"a">>, "newdoc")}
\*   names with reserved characters
NamesStore == {Entry(TRUE, <<"d", "?">>, "folder"), Entry(FALSE, <<"a", "?">>, "pdf")}
\*   names with dots and slashes
DotsStore == {Entry(TRUE, <<".", ".">>, "folder"), Entry(FALSE, <<"a", "/", "b">>, "pdf"),
              Entry(FALSE, <<".", ".", "/", "a">>, "pdf")}
\*   a file named as a folder is, and descriptors that lack a key
MalformedStore == {Entry(TRUE, <<"d">>, "folder"), Entry(FALSE, <<"d">>, "pdf"),
                   NoGuid(Entry(FALSE, <<"a">>, "pdf")), NoGuid(Entry(TRUE, <<"d">>, "folder"))}
\*   the other exported types
SheetStore == {Entry(FALSE, <<"a", "?">>, "mosheet")}
SlidesStore == {Entry(FALSE, <<"a">>, "presentation")}
ModocStore == {Entry(FALSE, <<"a">>, "modoc")}

Stores == {PlainStore, DocStore, NamesStore, DotsStore, MalformedStore, SheetStore, SlidesStore, ModocStore}

\* the listings of at most k (and at most MaxEntries) entries of a store
ListingsUpTo(store, k) ==
    UNION {[1..n -> store] : n \in 0..(IF k < MaxEntries THEN k ELSE MaxEntries)}

\* responses to the export request: {status, taskId}
ExportResponses ==
    {NoResponse, NotAnObject, Object(EmptyObject)}
    \cup {Object([status |-> s]) : s \in {"0", "1"}}
    \cup {Object([status |-> s, taskId |-> t]) : s \in {"0", "1"}, t \in {"", "t"}}
    \cup {Object([taskId |-> "t"])}

\* the data payloads of a progress response
NullData == [null |-> "None"]
DataPayloads ==
    {NullData, EmptyObject, [progress |-> "50"], [progress |-> "100"],
     [progress |-> "100", downloadUrl |-> ""],
     [progress |-> "100", downloadUrl |-> "u"],
     [progress |-> "50", downloadUrl |-> "u"],
     [downloadUrl |-> "u"]}

\* responses to a progress request: {status, code, data: {progress, downloadUrl?}}
ProgressResponses ==
    {NoResponse, NotAnObject, Object(EmptyObject),
     Object([status |-> "1", code |-> "0"]), Object([status |-> "0", code |-> "1"]),
     Object([status |-> "0"]), Object([code |-> "0"]),
     Object([status |-> "0", code |-> "0"])}
    \cup {Object([status |-> "0", code |-> "0", data |-> d]) : d \in DataPayloads}
    \cup {Object([status |-> "1", code |-> "0", data |-> [progress |-> "100", downloadUrl |-> "u"]])}

(***************************************************************************)
(* State                                                                   *)
(***************************************************************************)
VARIABLES
    filename, \* _safe_filename checked on its own: the name handed in,
    encoded,  \* what it returned,
    stage,    \* and how often it was applied ("off" in a run of the program)
    remote,   \* the entry descriptors the remote store serves
    pc,       \* where the run is: "start", "list", "loop", "regular",
              \* "export", "poll", "fetch", "done", "crashed"
    stack,    \* the active calls of traverse_folder, innermost last
    dirs,     \* the directories on disk
    files,    \* the files on disk: place -> bytes
    glog,     \* the general log (self.logger): the records of traverse_folder,
              \* download_file and run that tell an outcome (those of
              \* export_office_file are kept with the call, in call.errors)
    dlog,     \* the download log (self.download_file_logger)
    walk,     \* the guids of the entries taken from listings, in order
    listing,  \* the listing responses received: guid -> response
    call      \* the call of download_file under way, or the one that has just
              \* returned or raised; its locals are gone once the loop goes on

vars == <<filename, encoded, stage, remote, pc, stack, dirs, files, glog, dlog, walk, listing, call>>

RootGuid == <<>>

\* the disk holds no file; no listing was received
NoFiles == [l \in {} |-> <<>>]
NoListings == [g \in {} |-> NoResponse]

\* responses to a listing request: None, a JSON array of entries, or a
\* JSON object (anything that is not an array of entries)
ListingResponses(store, k) ==
    {NoResponse, NotAnObject} \cup {[kind |-> "list", items |-> l] : l \in ListingsUpTo(store, k)}

\* the entries listed so far in all
RECURSIVE CountEntries(_, _)
CountEntries(l, gs) ==
    IF gs = {} THEN 0
    ELSE LET g == CHOOSE x \in gs : TRUE IN
         (IF l[g].kind = "list" THEN Len(l[g].items) ELSE 0) + CountEntries(l, gs \ {g})

Listed == CountEntries(listing, DOMAIN listing)

NoCall ==
    [status |-> "none", guid |-> <<>>, entry |-> Entry(FALSE, <<>>, "pdf"),
     current_path |-> <<>>, save_dir |-> <<>>, safe_filename |-> <<>>,
     file_path |-> <<>>, task_id |-> "None", first |-> "none",
     first_response |-> NoResponse, io |-> "none", openable |-> FALSE,
     nexport |-> 0, nprogress |-> 0, nfetch |-> 0, nregular |-> 0,
     saw100 |-> FALSE, content |-> Absent, wrote |-> "no", before |-> Absent,
     errors |-> <<>>, records |-> <<>>,
     requests |-> <<>>, last_progress |-> NoResponse, no_url_at_100 |-> FALSE,
     fetched |-> Absent, ndlog |-> 0]

Init ==
    /\ filename = <<>>
    /\ encoded = <<>>
    /\ stage = "off"
    /\ remote \in Stores
    /\ pc = "start"
    /\ stack = <<>>
    /\ dirs = {}
    /\ files = NoFiles
    /\ glog = <<>>
    /\ dlog = <<>>
    /\ walk = <<>>
    /\ listing = NoListings
    /\ call = NoCall

\* (mutant) only the empty listing is told apart: None goes on into the loop
NotContentsOnlyEmpty(r) == r.kind = "list" /\ r.items = <<>>

\* line 229: not contents
NotContents(r) == r.kind = "absent" \/ (r.kind = "list" /\ r.items = <<>>)

\* (mutant) the loop takes the entries last to first
EntryIndexReversed(f) == Len(f.contents) + 1 - f.idx

\* line 233: the loop takes the entries in the order of the listing
EntryIndex(f) == f.idx

\* (mutant) the status of the response is not looked at
ExportRejectedNoStatus(r) == ~Truthy(r)

\* line 144: not first_response or first_response.get("status") != 0
ExportRejected(r) == ~Truthy(r) \/ Get(r.body, "status", "None") # "0"

\* line 149: not task_id
NoTaskId(r) == Get(r.body, "taskId", "None") \in {"None", ""}

\* (mutant) the status of the progress response is not looked at
InProgressNoStatus(r) ==
    /\ Truthy(r)
    /\ Get(r.body, "code", "None") = "0"

\* lines 161-163: the progress response counts
InProgress(r) ==
    /\ Truthy(r)
    /\ Get(r.body, "status", "None") = "0"
    /\ Get(r.body, "code", "None") = "0"

\* lines 161-168: the response counts and its data payload tells progress 100
Reports100(r) ==
    /\ r.kind = "dict"
    /\ Get(r.body, "status", "None") = "0"
    /\ Get(r.body, "code", "None") = "0"
    /\ "data" \in DOMAIN r.body
    /\ Get(r.body.data, "progress", "0") = "100"

\* (mutant) an empty download URL counts as one
HasDownloadUrlKey(data) == "downloadUrl" \in DOMAIN data

\* line 170: if download_url
HasDownloadUrl(data) == Get(data, "downloadUrl", "None") \notin {"None", ""}

\* the response counts, tells progress 100 and carries no download URL
CompleteWithoutUrl(r) ==
    /\ r.kind = "dict"
    /\ Get(r.body, "status", "None") = "0"
    /\ Get(r.body, "code", "None") = "0"
    /\ "data" \in DOMAIN r.body
    /\ Get(r.body.data, "progress", "0") = "100"
    /\ Get(r.body.data, "downloadUrl", "None") \in {"None", ""}

\* (mutant) every file is saved in the root directory itself
SaveDirRoot(current_path) == local_root_dir

\* line 187: save_dir
SaveDir(current_path) == join(local_root_dir, current_path)

\* (mutant) the success record is written before the file is
RecordsSuccessFirst(acquired, written) ==
    IF acquired THEN IF written THEN <<"success">> ELSE <<"success", "save_failed">>
    ELSE <<"download_failed">>

\* lines 211-222: the records one call of download_file appends to the
\* download log
Records(acquired, written) ==
    IF acquired THEN IF written THEN <<"success">> ELSE <<"save_failed">>
    ELSE <<"download_failed">>

\* lines 206-207: the extension an exported file gets
Extension(type, content) ==
    IF HasContent(content) /\ type \in OfficeTypes THEN ext_mapping(type) ELSE <<>>

(***************************************************************************)
(* download_file, lines 206-222: the extension, the write, the records     *)
(***************************************************************************)
IOs == {"ok", "write_fails"}

\* open(file_path, 'wb') succeeds: the place is no directory and lies in
\* an existing directory
CanOpen(loc) ==
    /\ loc.segs # <<>>
    /\ loc \notin dirs
    /\ (Len(loc.segs) = 1 \/ ParentLoc(loc) \in dirs)

\* c: the call so far; content: what the acquisition returned; io: what the
\* disk does; said: the failure messages the acquisition logged
Materialize(c, content, io, said) ==
    LET path == c.file_path \o Extension(c.entry.type, content)
        loc  == Resolve(path)
        rel  == join(c.current_path, c.safe_filename)
        before == IF loc \in DOMAIN files THEN Got(files[loc]) ELSE Absent
        opened == CanOpen(loc)
        recs == Records(HasContent(content), opened /\ io = "ok")
        c1   == [c EXCEPT !.content = content, !.file_path = path, !.before = before,
                          !.io = io, !.openable = CanOpen(loc), !.status = "returned",
                          !.records = recs]
    IN  /\ pc' = "loop"
        /\ UNCHANGED <<remote, stack, dirs, walk, listing>>
        /\ dlog' = dlog \o [i \in 1..Len(recs) |-> [kind |-> recs[i], rel |-> rel]]
        /\ IF HasContent(content)
           THEN IF opened /\ io = "ok"
                THEN /\ files' = (loc :> content.bytes) @@ files
                     /\ glog' = Append(glog, "FileSaved")
                     /\ call' = [c1 EXCEPT !.wrote = "yes", !.errors = said]
                ELSE /\ files' = IF opened THEN (loc :> <<>>) @@ files ELSE files
                     /\ glog' = Append(glog, "SaveFailed")
                     /\ call' = [c1 EXCEPT !.wrote = IF opened THEN "truncated" ELSE "no",
                                           !.errors = Append(said, "SaveFailed")]
           ELSE /\ files' = files
                /\ glog' = Append(glog, "DownloadFileFailed")
                /\ call' = [c1 EXCEPT !.errors = Append(said, "DownloadFileFailed")]

\* an exception leaves download_file (and traverse_folder, and run)
Raise(c, said) ==
    /\ pc' = "crashed"
    /\ call' = [c EXCEPT !.status = "raised", !.errors = said]
    /\ UNCHANGED <<remote, stack, dirs, files, glog, dlog, walk, listing>>

(***************************************************************************)
(* run, lines 245-258                                                      *)
(***************************************************************************)
run ==
    /\ pc = "start"
    /\ UNCHANGED <<filename, encoded, stage>>
    /\ \E io \in {"ok", "mkdir_fails"} :
         IF io = "ok"
         THEN /\ dirs' = dirs \cup Ancestors(RootLoc)
              /\ stack' = <<[guid |-> RootGuid, path |-> <<>>, contents |-> <<>>, idx |-> 1]>>
              /\ pc' = "list"
         ELSE /\ pc' = "crashed"
              /\ UNCHANGED <<dirs, stack>>
    /\ UNCHANGED <<remote, files, glog, dlog, walk, listing, call>>

\* traverse_folder returned to its caller: the loop of the folder above,
\* or run, which logs the end of the task
Return(said) ==
    /\ stack' = SubSeq(stack, 1, Len(stack) - 1)
    /\ IF Len(stack) = 1
       THEN pc' = "done" /\ glog' = glog \o said \o <<"TaskComplete">>
       ELSE pc' = "loop" /\ glog' = glog \o said

(***************************************************************************)
(* traverse_folder, lines 224-231: list the folder                         *)
(***************************************************************************)
traverse_folder ==
    /\ pc = "list"
    /\ UNCHANGED <<filename, encoded, stage>>
    /\ LET f == stack[Len(stack)] IN
       \E r \in ListingResponses(remote, MaxNodes - Listed) :
         /\ listing' = (f.guid :> r) @@ listing
         /\ IF NotContents(r)
            THEN Return(<<"ListFailed">>)
            ELSE IF r.kind # "list"
            THEN pc' = "crashed" /\ UNCHANGED <<stack, glog>>
            ELSE /\ stack' = [stack EXCEPT ![Len(stack)].contents = r.items]
                 /\ pc' = "loop"
                 /\ glog' = glog
    /\ UNCHANGED <<remote, dirs, files, dlog, walk, call>>

(***************************************************************************)
(* traverse_folder, lines 233-243: the loop over the entries               *)
(***************************************************************************)
traverse_return ==
    /\ pc = "loop"
    /\ UNCHANGED <<filename, encoded, stage>>
    /\ stack[Len(stack)].idx > Len(stack[Len(stack)].contents)
    /\ Return(<<>>)
    /\ call' = NoCall
    /\ UNCHANGED <<remote, dirs, files, dlog, walk, listing>>

\* the entry is a folder: lines 235-239
enter_subfolder ==
    /\ pc = "loop"
    /\ UNCHANGED <<filename, encoded, stage>>
    /\ LET f == stack[Len(stack)] IN
       /\ f.idx <= Len(f.contents)
       /\ f.contents[EntryIndex(f)].isFolder
       /\ LET item == f.contents[EntryIndex(f)]
              guid == Append(f.guid, EntryIndex(f))
              here == [stack EXCEPT ![Len(stack)].idx = f.idx + 1]
          IN  /\ walk' = Append(walk, guid)
              /\ IF {"name", "guid"} \subseteq item.keys
                 THEN /\ stack' = Append(here, [guid |-> guid,
                                               path |-> join(f.path, _safe_filename(item.name)),
                                               contents |-> <<>>, idx |-> 1])
                      /\ pc' = "list"
                 ELSE /\ stack' = here
                      /\ pc' = "crashed"
    /\ call' = NoCall
    /\ UNCHANGED <<remote, dirs, files, glog, dlog, listing>>

\* the entry is a file: line 243 and download_file, lines 181-197.
\* os.makedirs(save_dir, exist_ok=True) raises when a file stands where a
\* directory is needed, or when the disk refuses a directory it has to make.
download_file ==
    /\ pc = "loop"
    /\ UNCHANGED <<filename, encoded, stage>>
    /\ LET f == stack[Len(stack)] IN
       /\ f.idx <= Len(f.contents)
       /\ ~f.contents[EntryIndex(f)].isFolder
       /\ LET item == f.contents[EntryIndex(f)]
              guid == Append(f.guid, EntryIndex(f))
              save_dir == SaveDir(f.path)
              dirloc == Resolve(save_dir)
              safe == _safe_filename(item.name)
              c == [NoCall EXCEPT !.guid = guid, !.entry = item, !.current_path = f.path,
                                  !.ndlog = Len(dlog)]
          IN  /\ walk' = Append(walk, guid)
              /\ stack' = [stack EXCEPT ![Len(stack)].idx = f.idx + 1]
              /\ \E io \in {"ok", "mkdir_fails"} :
                   IF ~({"name", "guid", "type"} \subseteq item.keys)
                   THEN /\ pc' = "crashed"
                        /\ call' = [c EXCEPT !.status = "raised"]
                        /\ dirs' = dirs
                   ELSE IF \/ Ancestors(dirloc) \cap DOMAIN files # {}
                           \/ io # "ok" /\ ~(Ancestors(dirloc) \subseteq dirs)
                   THEN /\ pc' = "crashed"
                        /\ call' = [c EXCEPT !.status = "raised", !.save_dir = save_dir]
                        /\ dirs' = dirs
                   ELSE /\ pc' = IF item.type \in OfficeTypes THEN "export" ELSE "regular"
                        /\ call' = [c EXCEPT !.status = "running", !.save_dir = save_dir,
                                             !.safe_filename = safe,
                                             !.file_path = join(save_dir, safe)]
                        /\ dirs' = dirs \cup Ancestors(dirloc)
    /\ UNCHANGED <<remote, files, glog, dlog, listing>>

(***************************************************************************)
(* download_regular_file, lines 123-126, and the rest of download_file     *)
(***************************************************************************)
download_regular_file ==
    /\ pc = "regular"
    /\ UNCHANGED <<filename, encoded, stage>>
    /\ \E content \in Contents, io \in IOs :
         Materialize([call EXCEPT !.nregular = @ + 1, !.requests = Append(@, "download")],
                     content, io, <<>>)

(***************************************************************************)
(* export_office_file, lines 128-179                                       *)
(***************************************************************************)
\* lines 131-151: the export request
export_request ==
    /\ pc = "export"
    /\ UNCHANGED <<filename, encoded, stage>>
    /\ IF type_mapping(call.entry.type) = "None"
       THEN Materialize(call, Absent, "ok", <<"UnsupportedType">>)
       ELSE \E r \in ExportResponses :
              LET c == [call EXCEPT !.nexport = @ + 1, !.first_response = r,
                                    !.requests = Append(@, "export")] IN
              IF r.kind = "nondict"
              THEN Raise([c EXCEPT !.first = "raised"], <<>>)
              ELSE IF ExportRejected(r)
              THEN Materialize([c EXCEPT !.first = IF r.kind = "absent" THEN "absent" ELSE "rejected"],
                               Absent, "ok", <<"ExportRequestFailed">>)
              ELSE IF NoTaskId(r)
              THEN Materialize([c EXCEPT !.first = "notask"], Absent, "ok", <<"NoTaskId">>)
              ELSE /\ pc' = "poll"
                   /\ call' = [c EXCEPT !.first = "accepted", !.task_id = r.body.taskId]
                   /\ UNCHANGED <<remote, stack, dirs, files, glog, dlog, walk, listing>>

\* lines 157-179: one turn of the poll loop
export_progress ==
    /\ pc = "poll"
    /\ UNCHANGED <<filename, encoded, stage>>
    /\ \E r \in ProgressResponses :
         LET c == [call EXCEPT !.nprogress = @ + 1,
                               !.saw100 = @ \/ Reports100(r),
                               !.no_url_at_100 = @ \/ CompleteWithoutUrl(r),
                               !.requests = Append(@, "progress")]
             \* the loop is left on this response: it is the last one
             out == [c EXCEPT !.last_progress = r]
             said == call.errors
             goOn == IF c.nprogress = max_retries
                     THEN Materialize([out EXCEPT !.errors = <<>>], Absent, "ok",
                                      Append(said, "ExportTimeoutOrFailed"))
                     ELSE /\ pc' = "poll"
                          /\ call' = [c EXCEPT !.errors = said]
                          /\ glog' = glog
                          /\ UNCHANGED <<remote, stack, dirs, files, dlog, walk, listing>>
         IN
         IF r.kind = "nondict"
         THEN Raise(out, said)
         ELSE IF InProgress(r)
         THEN LET data == Get(r.body, "data", EmptyObject) IN
              IF "null" \in DOMAIN data
              THEN Raise(out, said)
              ELSE IF Get(data, "progress", "0") = "100"
              THEN IF HasDownloadUrl(data)
                   THEN /\ pc' = "fetch"
                        /\ call' = [out EXCEPT !.errors = said]
                        /\ glog' = glog
                        /\ UNCHANGED <<remote, stack, dirs, files, dlog, walk, listing>>
                   ELSE Materialize([out EXCEPT !.errors = <<>>], Absent, "ok",
                                    Append(said, "ExportTimeoutOrFailed"))
              ELSE goOn
         ELSE goOn

\* lines 172-173: fetch the exported file
export_fetch ==
    /\ pc = "fetch"
    /\ UNCHANGED <<filename, encoded, stage>>
    /\ \E content \in Contents, io \in IOs :
         Materialize([call EXCEPT !.nfetch = @ + 1, !.errors = <<>>, !.fetched = content,
                                  !.requests = Append(@, "fetch")],
                     content, io, call.errors)

Next ==
    \/ run
    \/ traverse_folder
    \/ traverse_return
    \/ enter_subfolder
    \/ download_file
    \/ download_regular_file
    \/ export_request
    \/ export_progress
    \/ export_fetch

Spec == Init /\ [][Next]_vars

(***************************************************************************)
(* _safe_filename on its own: every name of at most MaxNameLen characters  *)
(***************************************************************************)
NameChars == invalid_chars \cup {"a", ".", "%"}

Names == UNION {[1..n -> NameChars] : n \in 0..MaxNameLen}

InitSafe ==
    /\ filename \in Names
    /\ encoded = <<>>
    /\ stage = "name"
    /\ remote = PlainStore
    /\ pc = "off"
    /\ stack = <<>>
    /\ dirs = {}
    /\ files = NoFiles
    /\ glog = <<>>
    /\ dlog = <<>>
    /\ walk = <<>>
    /\ listing = NoListings
    /\ call = NoCall

\* the name is encoded
encode ==
    /\ stage = "name"
    /\ encoded' = _safe_filename(filename)
    /\ stage' = "encoded"
    /\ UNCHANGED <<filename, remote, pc, stack, dirs, files, glog, dlog, walk, listing, call>>

\* what was returned is encoded once more
encode_again ==
    /\ stage = "encoded"
    /\ encoded' = _safe_filename(encoded)
    /\ stage' = "twice"
    /\ UNCHANGED <<filename, remote, pc, stack, dirs, files, glog, dlog, walk, listing, call>>

NextSafe == encode \/ encode_again

SpecSafe == InitSafe /\ [][NextSafe]_vars

(***************************************************************************)
(* The claims                                                              *)
(***************************************************************************)
Range(seq) == {seq[i] : i \in 1..Len(seq)}

Last(seq) == seq[Len(seq)]

IsPrefix(a, b) == Len(a) <= Len(b) /\ SubSeq(b, 1, Len(a)) = a

\* the export request of the call was accepted: status 0 and a task id
Accepted(r) ==
    /\ r.kind = "dict"
    /\ Get(r.body, "status", "None") = "0"
    /\ Get(r.body, "taskId", "None") \notin {"None", ""}

\* the call of download_file is over, by a return or by an exception
CallOver == call.status \in {"returned", "raised"}

\* C1: once the export request was accepted and no progress response told
\* progress 100, the export is over only after exactly max_retries progress
\* requests, with the timeout logged and None returned.
C1_ThirtyPollsThenTimeout ==
    (call.nexport = 1 /\ Accepted(call.first_response) /\ ~call.saw100 /\ CallOver)
    => /\ call.status = "returned"
       /\ call.nprogress = max_retries
       /\ call.nfetch = 0
       /\ ~call.content.ok
       /\ "ExportTimeoutOrFailed" \in Range(call.errors)

\* the response to the export request is absent or carries a status other than 0
RejectedResponse(r) ==
    \/ r.kind = "absent"
    \/ r.kind = "dict" /\ Get(r.body, "status", "None") # "0"

\* C2: when the response to the export request is absent or has a status
\* other than 0, the export returns None at once, no progress and no fetch
\* request is issued, download_file records the failure in both logs and
\* writes no file.
C2_RejectedExportFailsAtOnce ==
    (call.nexport = 1 /\ RejectedResponse(call.first_response))
    => /\ call.status = "returned"
       /\ call.nprogress = 0
       /\ call.nfetch = 0
       /\ ~call.content.ok
       /\ call.wrote = "no"
       /\ call.records = <<"download_failed">>
       /\ Last(dlog).kind = "download_failed"
       /\ Last(glog) = "DownloadFileFailed"
       /\ "ExportRequestFailed" \in Range(call.errors)
       /\ (Resolve(call.file_path) \in DOMAIN files <=> call.before.ok)

C2_Witness ==
    /\ call.first_response = Object([status |-> "1", taskId |-> "t"])
    /\ call.status = "returned"
    /\ pc = "loop"

\* the entry was taken from its listing by the loop of traverse_folder
Processed(g) == g \in Range(walk)

Parent(g) == SubSeq(g, 1, Len(g) - 1)

\* C3: when the run is over, beside every subfolder whose listing was
\* absent, every entry of the same listing, before it and after it, has
\* been processed.
C3_SiblingsOfFailedFolderProcessed ==
    pc \in {"done", "crashed"}
    => \A g \in DOMAIN listing :
         (g # RootGuid /\ listing[g].kind = "absent")
         => \A j \in 1..Len(listing[Parent(g)].items) : Processed(Append(Parent(g), j))

\* the order the claim tells, computed from the listings received: an
\* entry, then (for a folder whose listing holds entries) all that is below
\* it, then its next sibling
RECURSIVE Preorder(_)
RECURSIVE PreorderFrom(_, _)
Preorder(g) ==
    IF g \in DOMAIN listing /\ listing[g].kind = "list" THEN PreorderFrom(g, 1) ELSE <<>>
PreorderFrom(g, i) ==
    IF i > Len(listing[g].items) THEN <<>>
    ELSE <<Append(g, i)>>
         \o (IF listing[g].items[i].isFolder THEN Preorder(Append(g, i)) ELSE <<>>)
         \o PreorderFrom(g, i + 1)

\* C4: the entries are taken in pre-order, depth first, siblings in the
\* order of their listing: at any time the entries taken so far are the
\* first of that order, which the listings alone determine, and a run that
\* completes has taken them all.
C4_WalkIsPreorder ==
    /\ IsPrefix(walk, Preorder(RootGuid))
    /\ (pc = "done" => walk = Preorder(RootGuid))

\* a subfolder with an entry below it was walked before its next sibling
C4_Witness ==
    /\ pc = "done"
    /\ walk = << <<1>>, <<1, 1>>, <<2>> >>

\* C5: no failure met while one file entry is processed leaves
\* download_file as an exception.
C5_NoExceptionLeavesDownloadFile == call.status # "raised"

\* the extension the claim tells for each type
C6_Extension(t) ==
    CASE t = "presentation" -> <<".", "p", "p", "t", "x">>
      [] t = "newdoc"       -> <<".", "d", "o", "c", "x">>
      [] t = "modoc"        -> <<".", "d", "o", "c", "x">>
      [] t = "mosheet"      -> <<".", "x", "l", "s", "x">>
      [] OTHER              -> <<>>

\* C6: a file that was written has the path of its folder, its escaped
\* name and, for the four exported types alone, the extension of its type.
C6_WrittenPathHasMappedExtension ==
    call.wrote = "yes"
    => /\ call.file_path = join(join(local_root_dir, call.current_path),
                                _safe_filename(call.entry.name) \o C6_Extension(call.entry.type))
       /\ Resolve(call.file_path) \in DOMAIN files

C6_Witness ==
    /\ call.wrote = "yes"
    /\ call.entry.type = "mosheet"
    /\ call.file_path = <<"r", "/", "a", "%", "3", "F", ".", "x", "l", "s", "x">>

\* each reserved character replaced by its percent-encoded form, the other
\* characters kept
RECURSIVE C7_Escaped(_)
C7_Escaped(name) ==
    IF name = <<>> THEN <<>>
    ELSE (IF Head(name) \in invalid_chars THEN PercentEncoded(Head(name)) ELSE <<Head(name)>>)
         \o C7_Escaped(Tail(name))

\* C7: _safe_filename replaces every reserved character by its
\* percent-encoded form and keeps the others; a name with no reserved
\* character, such as a name already encoded, comes back as it is.
C7_EveryReservedCharacterEscaped ==
    /\ stage \in {"encoded", "twice"} =>
         \A i \in 1..Len(encoded) : encoded[i] \notin invalid_chars
    /\ stage = "encoded" =>
         /\ encoded = C7_Escaped(filename)
         /\ (Range(filename) \cap invalid_chars = {} => encoded = filename)
    /\ stage = "twice" => encoded = C7_Escaped(filename)

\* C8: when the acquisition handed back bytes, of any length, and the disk
\* takes the write, download_file has written those bytes to the path and
\* recorded the success in both logs.
C8_AcquiredBytesAreWritten ==
    (call.status = "returned" /\ call.content.ok /\ call.io = "ok" /\ call.openable)
    => /\ call.wrote = "yes"
       /\ Resolve(call.file_path) \in DOMAIN files
       /\ files[Resolve(call.file_path)] = call.content.bytes
       /\ Last(dlog).kind = "success"
       /\ Last(glog) = "FileSaved"

\* C9: every directory made and every file written lies in the local root.
C9_NothingLeavesTheRoot ==
    /\ \A d \in dirs : InsideRoot(d)
    /\ \A l \in DOMAIN files : InsideRoot(l)

RootListingAbsent == RootGuid \in DOMAIN listing /\ listing[RootGuid].kind = "absent"

Occurrences(seq, x) == Cardinality({i \in 1..Len(seq) : seq[i] = x})

\* the run is over: run() returned, or an exception left it
RunOver == pc \in {"done", "crashed"}

\* C11: once the run is over, every entry of every folder whose listing was
\* received has been processed exactly once (a subfolder listed, a file
\* handed to download_file).
C11_EveryListedEntryProcessedOnce ==
    RunOver
    => \A g \in DOMAIN listing :
         listing[g].kind = "list"
         => \A j \in 1..Len(listing[g].items) : Occurrences(walk, Append(g, j)) = 1

\* the progress response has status 0, code 0 and progress 100, and no
\* download URL or an empty one
C12_HundredNoUrl(r) ==
    /\ r.kind = "dict"
    /\ "status" \in DOMAIN r.body /\ r.body.status = "0"
    /\ "code" \in DOMAIN r.body /\ r.body.code = "0"
    /\ "data" \in DOMAIN r.body
    /\ "progress" \in DOMAIN r.body.data /\ r.body.data.progress = "100"
    /\ ("downloadUrl" \in DOMAIN r.body.data => r.body.data.downloadUrl = "")

\* C12: once a progress response with status 0, code 0 and progress 100
\* came without a download URL (or with an empty one), it is the last
\* request of the export: no progress request and no fetch follows it, and
\* the export has returned None.
C12_NoUrlAtHundredEndsTheExport ==
    (call.no_url_at_100 \/ C12_HundredNoUrl(call.last_progress))
    => /\ call.status = "returned"
       /\ pc = "loop"
       /\ C12_HundredNoUrl(call.last_progress)
       /\ Last(call.requests) = "progress"
       /\ Len(call.requests) = 1 + call.nprogress
       /\ call.nfetch = 0
       /\ ~call.content.ok
       /\ call.wrote = "no"

\* the second progress response told 100 with an empty download URL
C12_Witness ==
    /\ call.status = "returned"
    /\ call.nprogress = 2
    /\ call.last_progress =
         Object([status |-> "0", code |-> "0", data |-> [progress |-> "100", downloadUrl |-> ""]])

\* the progress response is absent or malformed: status or code missing or
\* not 0, or the data payload missing, null or without progress
C13_Malformed(r) ==
    \/ r.kind = "absent"
    \/ /\ r.kind = "dict"
       /\ \/ Get(r.body, "status", "None") # "0"
          \/ Get(r.body, "code", "None") # "0"
          \/ "data" \notin DOMAIN r.body
          \/ r.body.data = NullData
          \/ "progress" \notin DOMAIN r.body.data

\* C13: an absent or malformed progress response never raises and never
\* ends the poll loop early: when the export is over and its last progress
\* response was one, all max_retries attempts were made, the timeout was
\* logged and None returned.
C13_MalformedProgressNeverEndsTheLoop ==
    (CallOver /\ call.nprogress > 0 /\ C13_Malformed(call.last_progress))
    => /\ call.status = "returned"
       /\ call.nprogress = max_retries
       /\ call.nfetch = 0
       /\ ~call.content.ok
       /\ "ExportTimeoutOrFailed" \in Range(call.errors)

\* the progress response has status 0, code 0, progress 100 and a download
\* URL that is not empty
C14_Ready(r) ==
    /\ r.kind = "dict"
    /\ "status" \in DOMAIN r.body /\ r.body.status = "0"
    /\ "code" \in DOMAIN r.body /\ r.body.code = "0"
    /\ "data" \in DOMAIN r.body
    /\ "progress" \in DOMAIN r.body.data /\ r.body.data.progress = "100"
    /\ "downloadUrl" \in DOMAIN r.body.data /\ r.body.data.downloadUrl # ""

\* one export request, n progress requests, k fetches, in this order
C14_Order(n, k) ==
    <<"export">> \o [i \in 1..n |-> "progress"] \o [i \in 1..k |-> "fetch"]

\* the call of export_office_file has issued a request
C14_Exporting == call.entry.type \in OfficeTypes /\ call.requests # <<>>

\* C14 as stated: a call of export_office_file that has returned issued
\* one export request and then between 1 and max_retries progress requests.
C14_AlwaysPolls ==
    (C14_Exporting /\ call.status = "returned")
    => /\ Occurrences(call.requests, "export") = 1
       /\ Occurrences(call.requests, "progress") \in 1..max_retries

\* C14 as amended: the requests of one call are one export request, then
\* progress requests (none when the export request was not accepted,
\* between 1 and max_retries when it was), then at most one fetch; the
\* fetch follows a progress response with status 0, code 0, progress 100
\* and a download URL, and what it hands back is what the call returns.
C14_RequestsInOrder ==
    C14_Exporting
    => /\ LET n == Occurrences(call.requests, "progress")
               k == Occurrences(call.requests, "fetch")
           IN
            /\ n \in 0..max_retries /\ k \in 0..1
            /\ call.requests = C14_Order(n, k)
            /\ (n >= 1 => Accepted(call.first_response))
            /\ (CallOver /\ Accepted(call.first_response) => n >= 1)
            /\ (k = 1 => n >= 1 /\ C14_Ready(call.last_progress))
            /\ (k = 1 => call.status = "returned" /\ call.content = call.fetched)
       /\ (pc = "fetch" => C14_Ready(call.last_progress))
       /\ (call.status = "returned" /\ call.content.ok => Last(call.requests) = "fetch")

\* two progress requests, then the fetch, whose bytes are returned
C14_Witness ==
    /\ call.status = "returned"
    /\ call.requests = <<"export", "progress", "progress", "fetch">>
    /\ call.content = Got(<<"x">>)

\* the failure messages export_office_file itself logs
C15_OwnMessages == {"UnsupportedType", "ExportRequestFailed", "NoTaskId", "ExportTimeoutOrFailed"}

\* C15: whenever export_office_file has returned None, it has logged one
\* of its own failure messages in that call.
C15_EveryAbsentReturnIsLogged ==
    (call.entry.type \in OfficeTypes /\ call.status = "returned" /\ ~call.content.ok)
    => Range(call.errors) \cap C15_OwnMessages # {}

\* the folders whose listing came back absent
C16_AbsentListings == {g \in DOMAIN listing : listing[g].kind = "absent"}

\* C16: the listing failures logged are as many as the listings that were
\* absent: a folder whose listing is present logs none, be it empty.
C16_ListingFailureLoggedOnlyWhenAbsent ==
    Occurrences(glog, "ListFailed") = Cardinality(C16_AbsentListings)

\* the relative path of the folder with this guid, from the listings
RECURSIVE C17_FolderPath(_)
C17_FolderPath(g) ==
    IF g = RootGuid THEN <<>>
    ELSE join(C17_FolderPath(Parent(g)),
              _safe_filename(listing[Parent(g)].items[Last(g)].name))

\* the directory of that folder on disk, and the directories above it
C17_Directories(g) == Ancestors(Resolve(join(local_root_dir, C17_FolderPath(g))))

\* the folders a file entry of which was handed to download_file
C17_FoldersWithFileTaken ==
    {Parent(g) : g \in {h \in Range(walk) : ~listing[Parent(h)].items[Last(h)].isFolder}}

C18_OnDisk ==
    IF Resolve(call.file_path) \in DOMAIN files
    THEN Got(files[Resolve(call.file_path)])
    ELSE Absent

\* C18: a call of download_file that has returned has appended one record
\* to the download log, for the relative path of the file; the record tells
\* success exactly when the bytes acquired were written (otherwise the path
\* holds what it held before, or what a failed write left of it); and when
\* the acquisition failed, the path holds what it held before.
C18_OneRecordPerCall ==
    call.status = "returned"
    => /\ Len(dlog) = call.ndlog + 1
       /\ Last(dlog).rel = join(call.current_path, _safe_filename(call.entry.name))
       /\ (Last(dlog).kind = "success"
             => call.content.ok /\ C18_OnDisk = call.content)
       /\ (Last(dlog).kind # "success"
             => \/ C18_OnDisk = call.before
                \/ call.content.ok /\ call.io # "ok" /\ C18_OnDisk = Got(<<>>))
       /\ (Last(dlog).kind = "success" <=> call.wrote = "yes")
       /\ (~call.content.ok => C18_OnDisk = call.before)

\* a second entry for a path that holds a file, and its acquisition failed
C18_Witness ==
    /\ call.status = "returned"
    /\ call.before = Got(<<"x">>)
    /\ ~call.content.ok
    /\ Len(dlog) = 2

\* C19: when the path of a file entry already holds the file of an earlier
\* entry of the run and the disk takes the write, the path then holds the
\* bytes of the later entry if its acquisition succeeded, and the earlier
\* bytes unchanged if it failed.
C19_LastAcquiredWins ==
    (call.status = "returned" /\ call.before.ok /\ call.io = "ok" /\ call.openable)
    => C18_OnDisk = (IF call.content.ok THEN call.content ELSE call.before)

====
